---- MODULE Spec2Model ----
(***************************************************************************)
(* Model of ClipCascade_Desktop/src/clipboard/clipboard_monitor_linux.py:  *)
(* the clipboard monitor's module globals, the caller thread's API         *)
(* (on_update, stop, enable_block_image_once), the worker thread (_runner) *)
(* and the three monitoring strategies it selects between                  *)
(* (_WaylandClipboardMonitor, the Gtk owner-change listener,               *)
(* _monitor_x_wl_clipboard), plus the pure helper                          *)
(* convert_mime_to_generic_type.                                           *)
(***************************************************************************)
EXTENDS Integers, Sequences, FiniteSets, TLC

VARIABLES
    \* ---- module globals (lines 22-28, 221)
    callback_update,     \* _callback_update: "None" or a callback
    clipboard_thread,    \* _clipboard_thread: "None" or "thread"
    block_image_once,    \* _block_image_once
    is_gdk_running,      \* _is_gdk_running
    run_poll,            \* _run_poll (threading.Event): TRUE when set
    wayland_monitor,     \* _wayland_monitor: "None" or "monitor"
    \* ---- constant imported from core.constants, fixed per process
    ext_support,         \* EXT_DATA_CONTROL_SUPPORT
    \* ---- the worker thread
    wpc,                 \* position of the worker thread in _runner
    args,                \* the (enable_image_monitoring, enable_file_monitoring) the thread was started with
    mon,                 \* fields of the _WaylandClipboardMonitor object of this session
    poll,                \* locals of _monitor_x_wl_clipboard
    gtk_loop,            \* the toolkit main loop: "none", "running", "quit"
    \* ---- the caller thread
    cpc,                 \* position of the caller thread inside stop()
    \* ---- observations (history of what the program did)
    last_logged,         \* the message most recently written with logging.error on the polling path
    relogged,            \* TRUE when that message was the same as the one logged before it
    reported,            \* the value the active strategy most recently read from its source
    repeat,              \* TRUE when that read returned the same value as the read before it
    last_call,           \* the callback invocation made for that read [cb, kind, val], or NoCall
    attempts,            \* strategies the worker attempted in this session, in order
    wl_fail,             \* why start() returned False, while _runner acts on it, else "none"
    gdk_probe,           \* outcome of the windowing-backend check, while _runner acts on it, else "none"
    benign_since,        \* TRUE when the Polling Executor met a benign error since the value it read last
    last_op,             \* the API call the caller thread made last
    offers,              \* the compositor's side of the session: the offers it announced
    teardown,            \* what the most recent _WaylandClipboardMonitor.stop() attempted
    \* ---- the classifier harness
    cls_in,              \* a MIME list handed to convert_mime_to_generic_type
    cls_out,             \* its result, or "pending"
    req_out              \* the MIME types the two fetching strategies request for that list

vars == <<callback_update, clipboard_thread, block_image_once, is_gdk_running,
          run_poll, wayland_monitor, ext_support, wpc, args, mon, poll,
          gtk_loop, cpc, last_logged, relogged, reported, repeat, last_call,
          attempts, wl_fail, gdk_probe, benign_since, last_op, offers,
          teardown, cls_in, cls_out, req_out>>

progVars == <<callback_update, clipboard_thread, block_image_once, is_gdk_running,
              run_poll, wayland_monitor, wpc, args, mon, poll, gtk_loop>>

obsVars == <<last_logged, relogged, reported, repeat, last_call, attempts,
             wl_fail, gdk_probe, benign_since, offers, teardown>>

logVars == <<last_logged, relogged>>

\* the observations only the Protocol Client changes
wlObs == <<offers, teardown>>

clsVars == <<cls_in, cls_out, req_out>>

envVars == <<ext_support>>

----------------------------------------------------------------------------
(* Bounds *)

\* longest MIME list handed to the classifier harness
MaxLen == 2

\* longest MIME list a Wayland offer accumulates
MaxMimes == 2

----------------------------------------------------------------------------
(* Python values.  A value carries its Python type, so that a str, a bytes *)
(* and a list never compare equal, as in Python.                           *)

PyNone == [ty |-> "none", v |-> ""]

Str(s) == [ty |-> "str", v |-> s]

Bytes(s) == [ty |-> "bytes", v |-> s]

List(l) == [ty |-> "list", v |-> l]

\* Python's == on two values
PyEq(a, b) == a.ty = b.ty /\ a.v = b.v

\* Python truthiness of a value (None, "", b"" and [] are falsy)
Truthy(a) == a.ty # "none" /\ (IF a.ty = "list" THEN a.v # <<>> ELSE a.v # "")

----------------------------------------------------------------------------
(* String helpers, computed character by character.                        *)

CharAt(s, i) == SubSeq(s, i, i)

StartsWith(s, p) == Len(s) >= Len(p) /\ SubSeq(s, 1, Len(p)) = p

\* the first index >= i at which p occurs in s, or 0
FindFrom(s, p, i) ==
    LET hits == {j \in i..(Len(s) - Len(p) + 1) : SubSeq(s, j, j + Len(p) - 1) = p}
    IN  IF hits = {} THEN 0 ELSE CHOOSE j \in hits : \A k \in hits : j <= k

UpperChars == "ABCDEFGHIJKLMNOPQRSTUVWXYZ"

LowerChars == "abcdefghijklmnopqrstuvwxyz"

LowerChar(c) ==
    LET i == FindFrom(UpperChars, c, 1)
    IN  IF i = 0 THEN c ELSE CharAt(LowerChars, i)

\* str.lower(), one half of the string after the other
RECURSIVE Lower(_)
Lower(s) ==
    IF s = "" THEN ""
    ELSE IF Len(s) = 1 THEN LowerChar(s)
    ELSE Lower(SubSeq(s, 1, Len(s) \div 2)) \o Lower(SubSeq(s, Len(s) \div 2 + 1, Len(s)))

IsSpace(c) == c \in {" ", "\t", "\n", "\r"}

\* str.strip()
Strip(s) ==
    LET kept == {i \in 1..Len(s) : ~IsSpace(CharAt(s, i))}
    IN  IF kept = {} THEN ""
        ELSE SubSeq(s, CHOOSE i \in kept : \A k \in kept : i <= k,
                       CHOOSE j \in kept : \A k \in kept : k <= j)

\* str.replace(old, new): the occurrences of old, left to right
RECURSIVE Replace(_, _, _)
Replace(s, old, new) ==
    LET i == FindFrom(s, old, 1)
    IN  IF i = 0 THEN s
        ELSE SubSeq(s, 1, i - 1) \o new \o Replace(SubSeq(s, i + Len(old), Len(s)), old, new)

\* s.replace("\r\n", "\n").replace("\r", "\n")
NormalizeNewlines(s) == Replace(Replace(s, "\r\n", "\n"), "\r", "\n")

\* s.split("\n")
RECURSIVE SplitLines(_)
SplitLines(s) ==
    LET i == FindFrom(s, "\n", 1)
    IN  IF i = 0 THEN <<s>>
        ELSE <<SubSeq(s, 1, i - 1)>> \o SplitLines(SubSeq(s, i + 1, Len(s)))

\* [f.strip() for f in lines if f.strip()]
RECURSIVE StripNonEmpty(_)
StripNonEmpty(lines) ==
    IF lines = <<>> THEN <<>>
    ELSE LET f == Strip(Head(lines))
         IN  (IF f # "" THEN <<f>> ELSE <<>>) \o StripNonEmpty(Tail(lines))

\* the line list the code builds from decoded text (lines 102-103, 294-295, 369-370)
ParseLines(s) == StripNonEmpty(SplitLines(NormalizeNewlines(s)))

\* a byte that is not valid UTF-8 is written "#"
InvalidByte == "#"

\* bytes.decode("utf-8"): TRUE when it raises UnicodeDecodeError
DecodeFails(b) == \E i \in 1..Len(b) : CharAt(b, i) = InvalidByte

\* bytes.decode("utf-8") of valid bytes: the same characters, as a str
Decode(b) == Str(b)

----------------------------------------------------------------------------
(* convert_mime_to_generic_type (lines 388-406)                            *)

text_mime == <<"text/plain", "text/plain;charset=utf-8", "STRING", "TEXT",
               "COMPOUND_TEXT", "UTF8_STRING">>

\* Python's "x in list"
In(x, list) == \E i \in 1..Len(list) : list[i] = x

convert_mime_to_generic_type_PrefixSlip(mime_list) ==
    IF In("text/uri-list", mime_list) THEN "files"
    ELSE IF \E i \in 1..Len(mime_list) : StartsWith(mime_list[i], "image") THEN "image"
    ELSE IF \E t \in 1..Len(text_mime) : In(text_mime[t], mime_list) THEN "text"
    ELSE "unknown"

convert_mime_to_generic_type(mime_list) ==
    IF In("text/uri-list", mime_list) THEN "files"
    ELSE IF \E i \in 1..Len(mime_list) : StartsWith(mime_list[i], "image/") THEN "image"
    ELSE IF \E t \in 1..Len(text_mime) : In(text_mime[t], mime_list) THEN "text"
    ELSE "unknown"

----------------------------------------------------------------------------
(* The Polling Executor's error messages (lines 268-271, 286, 313, 343, 376) *)

\* re.search(r"target .+ not available", s): "." does not match a newline
MatchTargetNotAvailable(s) ==
    \E i \in 1..Len(s) : \E j \in 1..Len(s) :
        /\ i + 6 <= Len(s)
        /\ SubSeq(s, i, i + 6) = "target "
        /\ j >= i + 8
        /\ j + 13 <= Len(s)
        /\ SubSeq(s, j, j + 13) = " not available"
        /\ FindFrom(SubSeq(s, i + 7, j - 1), "\n", 1) = 0

\* re.search(r"no suitable type of content copied", s)
MatchNoSuitableType(s) == FindFrom(s, "no suitable type of content copied", 1) # 0

\* any(re.search(pattern, error_msg.lower()) for pattern in ignore_patterns)
MatchesIgnore(error_msg) ==
    MatchTargetNotAvailable(Lower(error_msg)) \/ MatchNoSuitableType(Lower(error_msg))

\* the message of line 497-499, up to the exception text
RunnerErrorMsg == "Failed to start clipboard monitor: Error "

MimePrefix == "Failed to retrieve MIME types: "

TextPrefix == "Failed to retrieve text content from clipboard. "

ImagePrefix == "Failed to retrieve image content from clipboard. "

FilesPrefix == "Failed to retrieve files content from clipboard. "

\* what the two tools write to stderr when they exit non-zero
XclipListErrors == {"Error: target TARGETS not available\n", "Error: Can't open display\n"}

XclipFetchErrors == {"Error: target STRING not available\n", "Error: Can't open display\n"}

WlPasteListErrors == {"Nothing is copied\n"}

WlPasteFetchErrors == {"No suitable type of content copied\n", "Nothing is copied\n"}

ToolErrors ==
    XclipListErrors \cup XclipFetchErrors \cup WlPasteListErrors \cup WlPasteFetchErrors

ErrorMsgs ==
    {p \o e : p \in {MimePrefix, TextPrefix, ImagePrefix, FilesPrefix}, e \in ToolErrors}

\* the messages the executor can build that match an ignore pattern
IgnoredMsgs == {m \in ErrorMsgs : MatchesIgnore(m)}

\* the ignore-pattern test (lines 315-318) of such a message
IsIgnored(error_msg) == error_msg \in IgnoredMsgs

----------------------------------------------------------------------------
(* What the clipboard sources can return.                                  *)

Callbacks == {"cb1", "cb2"}

\* stdout of the tool's "list MIME types" invocation
ListingOutputs ==
    {"", "TARGETS\nUTF8_STRING\ntext/plain\n", "image/png\r\nimage/jpeg\r\n",
     "text/uri-list\ntext/plain\n", "application/x-foo\n", "#"}

\* every decodable listing with its classification (lines 293-296)
ListingTable ==
    {<<o, convert_mime_to_generic_type(ParseLines(o))>> :
        o \in {l \in ListingOutputs : ~DecodeFails(l)}}

ListingType(mime_list) == (CHOOSE p \in ListingTable : p[1] = mime_list)[2]

\* raw bytes a text fetch can return
TextPayloads == {"", "a", "#"}

\* raw bytes an image fetch can return
ImagePayloads == {"", "P"}

\* raw bytes a text/uri-list fetch can return
FilePayloads == {"", " /f \r\n\r\n/g", "#"}

\* every decodable text/uri-list payload with its file list (lines 101-103,
\* 368-370)
FilesTable == {<<q, ParseLines(q)>> : q \in {r \in FilePayloads : ~DecodeFails(r)}}

FilesOf(data) == (CHOOSE p \in FilesTable : p[1] = data)[2]

\* MIME types a Wayland offer can announce
WlMimes == {"text/plain", "image/png", "image/jpeg", "text/uri-list"}

\* MIME types handed to the classifier harness
ClsMimes ==
    {"text/uri-list", "image/png", "image/jpeg", "image/", "image", "text/plain",
     "text/plain;charset=utf-8", "STRING", "TEXT", "COMPOUND_TEXT", "UTF8_STRING",
     "TARGETS", "text/html"}

SeqsUpTo(S, n) == UNION {[1..k -> S] : k \in 0..n}

----------------------------------------------------------------------------
(* Initial state: the module as imported (lines 22-28, 221), no session.   *)

\* a _WaylandClipboardMonitor as __init__ leaves it (lines 39-46); the
\* enable flags it copies are args
NewMonitor ==
    [running |-> FALSE, display |-> FALSE, data_control_manager |-> FALSE,
     data_device |-> FALSE, seat |-> FALSE, current_offer |-> FALSE,
     current_offer_mime_types |-> <<>>, previous_clipboard |-> PyNone]

\* the locals of _monitor_x_wl_clipboard at its entry (lines 266-267);
\* in_try tells whether _runner called the executor from inside its try block
\* (line 495) or from its except clause (line 500)
NewPoll ==
    [x_mode |-> FALSE, in_try |-> FALSE, last_error |-> "None",
     previous_clipboard |-> PyNone]

NoCall == [cb |-> "None", kind |-> "none", val |-> PyNone]

\* The compositor's side of a data-control session.  It announces an offer
\* (data_offer), then that offer's MIME types, then hands the offer over in
\* a selection or a primary_selection event.  selection: an offer announced
\* for the selection is not handed over yet; primary: an offer announced for
\* the primary selection exists (the client never destroys one); announced:
\* the event the offer announced last is for, which is the offer whose MIME
\* types the monitor's list holds; orphaned: the session ended with an offer
\* the client never destroyed.
NoOffers ==
    [selection |-> FALSE, primary |-> FALSE, announced |-> "none", orphaned |-> FALSE]

\* no _WaylandClipboardMonitor.stop() observed
NoTeardown == [done |-> FALSE, tried |-> <<>>, raised |-> "none"]

\* the thread that ran the stop goes on: its observation is over
TeardownSeen == teardown' = NoTeardown

\* the observations at the start of a session
ObsReset ==
    /\ last_logged = "None"
    /\ relogged = FALSE
    /\ reported = PyNone
    /\ repeat = FALSE
    /\ last_call = NoCall
    /\ attempts = <<>>
    /\ wl_fail = "none"
    /\ gdk_probe = "none"
    /\ benign_since = FALSE
    /\ offers = NoOffers
    /\ teardown = NoTeardown

\* the same, of the next state
ObsResetNext ==
    /\ last_logged' = "None"
    /\ relogged' = FALSE
    /\ reported' = PyNone
    /\ repeat' = FALSE
    /\ last_call' = NoCall
    /\ attempts' = <<>>
    /\ wl_fail' = "none"
    /\ gdk_probe' = "none"
    /\ benign_since' = FALSE
    /\ offers' = NoOffers
    /\ teardown' = NoTeardown

ProgInit ==
    /\ callback_update = "None"
    /\ clipboard_thread = "None"
    /\ block_image_once = FALSE
    /\ is_gdk_running = FALSE
    /\ run_poll = FALSE
    /\ wayland_monitor = "None"
    /\ wpc = "none"
    /\ args = [image |-> FALSE, files |-> FALSE]
    /\ mon = NewMonitor
    /\ poll = NewPoll
    /\ gtk_loop = "none"
    /\ cpc = "idle"
    /\ ObsReset
    /\ last_op = "other"

\* no request computed yet
NoRequest ==
    [done |-> FALSE, image |-> FALSE, files |-> FALSE, wl |-> "", poll |-> ""]

Init ==
    /\ ProgInit
    /\ ext_support \in BOOLEAN
    /\ cls_in = <<>>
    /\ cls_out = "pending"
    /\ req_out = NoRequest

----------------------------------------------------------------------------
(* Observation helpers.                                                    *)

\* the active strategy read val from its source
Report(val) ==
    /\ reported' = val
    /\ repeat' = PyEq(reported, val)

\* the step reads no value
NoReport == UNCHANGED <<reported, repeat, last_call>>

\* if _callback_update: _callback_update(kind, val)
Call(kind, val) ==
    last_call' = IF callback_update # "None"
                 THEN [cb |-> callback_update, kind |-> kind, val |-> val]
                 ELSE NoCall

\* the value read is not passed to the callback
NoCallNow == last_call' = NoCall

\* logging.error(msg) in the Polling Executor
Log(msg) ==
    /\ last_logged' = msg
    /\ relogged' = (msg = last_logged)

NoLog == UNCHANGED <<last_logged, relogged>>

WorkerDead == wpc \in {"none", "exited", "crashed"}

----------------------------------------------------------------------------
(* The caller thread: on_update, enable_block_image_once, stop.            *)

\* _start (lines 503-511) where a running session takes over the new flags
StartThread_AdoptsFlags(enable_image, enable_file) ==
    IF clipboard_thread = "None"
    THEN /\ WorkerDead
         /\ clipboard_thread' = "thread"
         /\ args' = [image |-> enable_image, files |-> enable_file]
         /\ wpc' = "start"
         /\ mon' = NewMonitor
         /\ poll' = NewPoll
         /\ ObsResetNext
    ELSE /\ args' = [image |-> enable_image, files |-> enable_file]
         /\ UNCHANGED <<clipboard_thread, wpc, mon, poll, obsVars>>

\* _start (lines 503-511): a new thread only when _clipboard_thread is unset
StartThread(enable_image, enable_file) ==
    IF clipboard_thread = "None"
    THEN /\ WorkerDead
         /\ clipboard_thread' = "thread"
         /\ args' = [image |-> enable_image, files |-> enable_file]
         /\ wpc' = "start"
         /\ mon' = NewMonitor
         /\ poll' = NewPoll
         /\ ObsResetNext
    ELSE UNCHANGED <<clipboard_thread, args, wpc, mon, poll, obsVars>>

\* on_update (lines 553-556)
OnUpdate ==
    /\ cpc = "idle"
    /\ \E cb \in Callbacks, enable_image \in BOOLEAN, enable_file \in BOOLEAN :
        /\ callback_update' = cb
        /\ StartThread(enable_image, enable_file)
    /\ last_op' = "other"
    /\ UNCHANGED <<block_image_once, is_gdk_running, run_poll, wayland_monitor,
                   gtk_loop, cpc, envVars, clsVars>>

\* enable_block_image_once (lines 548-550)
EnableBlockImageOnce ==
    /\ cpc = "idle"
    /\ block_image_once' = TRUE
    /\ last_op' = "other"
    /\ UNCHANGED <<callback_update, clipboard_thread, is_gdk_running, run_poll,
                   wayland_monitor, wpc, args, mon, poll, gtk_loop, cpc, obsVars,
                   envVars, clsVars>>

\* the resources _WaylandClipboardMonitor.stop releases, in its order
TeardownOrder == <<"current_offer", "data_device", "data_control_manager", "display">>

\* the calls that can raise inside stop: one of the four, or none
TeardownRaises == {"none", "current_offer", "data_device", "data_control_manager", "display"}

\* position of a resource in TeardownOrder
TeardownIndex(f) == CHOOSE i \in 1..Len(TeardownOrder) : TeardownOrder[i] = f

\* the steps stop attempts (lines 195, 201, 207, 213): those whose reference is set
TeardownTried(m) == SelectSeq(TeardownOrder, LAMBDA f : m[f])

\* stop (lines 193-218) where an exception of a destroy call leaves the method
MonitorStopped_AbortsOnFailure(m, raises) ==
    [f \in DOMAIN m |->
        IF f = "running" THEN FALSE
        ELSE IF f \in {"current_offer", "data_device", "data_control_manager", "display"}
        THEN IF raises # "none" /\ m[raises] /\ TeardownIndex(f) >= TeardownIndex(raises)
             THEN m[f]
             ELSE FALSE
        ELSE m[f]]

\* _WaylandClipboardMonitor.stop (lines 193-218): each reference that is set
\* is released inside its own try and then cleared, whether the call raised
MonitorStopped(m, raises) ==
    [f \in DOMAIN m |->
        IF f \in {"running", "current_offer", "data_device", "data_control_manager",
                  "display"}
        THEN FALSE
        ELSE m[f]]

\* what a stop of monitor m, in which the call named raises fails, attempted
TeardownOf(m, raises) ==
    [done |-> TRUE, tried |-> TeardownTried(m),
     raised |-> IF raises # "none" /\ m[raises] THEN raises ELSE "none"]

\* the compositor's side once the session is gone: every offer the client
\* had not destroyed stays undestroyed (kept tells whether the client's
\* current offer is among them)
OffersAbandoned(o, kept) ==
    [NoOffers EXCEPT !.orphaned = o.orphaned \/ kept \/ o.selection \/ o.primary]

\* Gtk.main_quit(): ends the main loop if one is running, else does nothing
MainQuit(loop) == IF loop = "running" THEN "quit" ELSE loop

\* stop with no thread where line 538 runs outside the if
StopNoSession_ClearsFlag ==
    /\ cpc = "idle"
    /\ clipboard_thread = "None"
    /\ last_op' = "stop_noop"
    /\ block_image_once' = FALSE
    /\ UNCHANGED <<callback_update, clipboard_thread, is_gdk_running, run_poll,
                   wayland_monitor, wpc, args, mon, poll, gtk_loop, cpc, obsVars,
                   envVars, clsVars>>

\* stop (lines 522-539) with no thread: the body of the if is skipped
StopNoSession ==
    /\ cpc = "idle"
    /\ clipboard_thread = "None"
    /\ last_op' = "stop_noop"
    /\ UNCHANGED <<progVars, cpc, obsVars, envVars, clsVars>>

\* stop (lines 522-533): signal the active strategy
StopSignal ==
    /\ cpc = "idle"
    /\ clipboard_thread # "None"
    /\ IF wayland_monitor # "None"
       THEN /\ \E raises \in TeardownRaises :
                 /\ mon' = MonitorStopped(mon, raises)
                 /\ teardown' = TeardownOf(mon, raises)
            /\ offers' = OffersAbandoned(offers, FALSE)
            /\ wayland_monitor' = "None"
            /\ UNCHANGED <<gtk_loop, is_gdk_running>>
       ELSE IF is_gdk_running
       THEN /\ gtk_loop' = MainQuit(gtk_loop)
            /\ is_gdk_running' = FALSE
            /\ UNCHANGED <<mon, wayland_monitor, wlObs>>
       ELSE UNCHANGED <<mon, wayland_monitor, gtk_loop, is_gdk_running, wlObs>>
    /\ cpc' = "stop_clear"
    /\ last_op' = "other"
    /\ UNCHANGED <<callback_update, clipboard_thread, block_image_once, run_poll,
                   wpc, args, poll, logVars, reported, repeat, last_call,
                   attempts, wl_fail, gdk_probe, benign_since, envVars, clsVars>>

\* stop (line 534): _run_poll.clear()
StopClear ==
    /\ cpc = "stop_clear"
    /\ run_poll' = FALSE
    /\ cpc' = "stop_join"
    /\ TeardownSeen
    /\ UNCHANGED <<callback_update, clipboard_thread, block_image_once,
                   is_gdk_running, wayland_monitor, wpc, args, mon, poll, gtk_loop,
                   logVars, reported, repeat, last_call, attempts, wl_fail,
                   gdk_probe, benign_since, offers, last_op, envVars, clsVars>>

\* stop (lines 535-539) without the join
StopJoin_NoJoin ==
    /\ cpc = "stop_join"
    /\ clipboard_thread' = "None"
    /\ callback_update' = "None"
    /\ block_image_once' = FALSE
    /\ cpc' = "idle"
    /\ last_op' = "other"
    /\ UNCHANGED <<is_gdk_running, run_poll, wayland_monitor, wpc, args, mon, poll,
                   gtk_loop, obsVars, envVars, clsVars>>

\* stop (lines 535-539): join the worker, then clear the globals and return
StopJoin ==
    /\ cpc = "stop_join"
    /\ WorkerDead
    /\ clipboard_thread' = "None"
    /\ callback_update' = "None"
    /\ block_image_once' = FALSE
    /\ cpc' = "idle"
    /\ last_op' = "other"
    /\ UNCHANGED <<is_gdk_running, run_poll, wayland_monitor, wpc, args, mon, poll,
                   gtk_loop, obsVars, envVars, clsVars>>

----------------------------------------------------------------------------
(* The worker thread: _runner (lines 458-500).                             *)

callerVars == <<cpc, last_op>>

\* line 460: _run_poll.set()
RunnerSetRunPoll ==
    /\ wpc = "start"
    /\ run_poll' = TRUE
    /\ wpc' = "select"
    /\ UNCHANGED <<callback_update, clipboard_thread, block_image_once,
                   is_gdk_running, wayland_monitor, args, mon, poll, gtk_loop,
                   obsVars, callerVars, envVars, clsVars>>

\* lines 462-466: the Protocol Client is built only under EXT_DATA_CONTROL_SUPPORT
RunnerSelect ==
    /\ wpc = "select"
    /\ IF ext_support
       THEN /\ wayland_monitor' = "monitor"
            /\ mon' = NewMonitor
            /\ wpc' = "wl_call"
       ELSE /\ wpc' = "gdk_check"
            /\ UNCHANGED <<wayland_monitor, mon>>
    /\ UNCHANGED <<callback_update, clipboard_thread, block_image_once,
                   is_gdk_running, run_poll, args, poll, gtk_loop, obsVars,
                   callerVars, envVars, clsVars>>

\* line 467: _wayland_monitor.start() reads the global again; if stop() has
\* set it to None the attribute lookup raises outside any try and the thread dies
RunnerCallStart ==
    /\ wpc = "wl_call"
    /\ IF wayland_monitor = "None"
       THEN /\ wpc' = "crashed"
            /\ UNCHANGED attempts
       ELSE /\ wpc' = "wl_open"
            /\ attempts' = Append(attempts, "protocol")
    /\ UNCHANGED <<callback_update, clipboard_thread, block_image_once,
                   is_gdk_running, run_poll, wayland_monitor, args, mon, poll,
                   gtk_loop, logVars, reported, repeat, last_call, wl_fail,
                   gdk_probe, benign_since, wlObs, callerVars, envVars, clsVars>>

\* lines 469-472: start() returned False; the next strategy reads its source
\* afresh
RunnerFallBack ==
    /\ wpc = "wl_failed"
    /\ wayland_monitor' = "None"
    /\ mon' = NewMonitor
    /\ wpc' = "gdk_check"
    /\ reported' = PyNone
    /\ repeat' = FALSE
    /\ offers' = NoOffers
    /\ teardown' = NoTeardown
    /\ UNCHANGED <<callback_update, clipboard_thread, block_image_once,
                   is_gdk_running, run_poll, args, poll, gtk_loop, logVars,
                   last_call, attempts, wl_fail, gdk_probe, benign_since,
                   callerVars, envVars, clsVars>>

\* outcomes of the try block up to the backend test (lines 474-481)
GdkOutcomes == {"x11", "other", "throws"}

\* the strategy _runner picks after the backend test (lines 481-500) where the
\* fallback is taken whatever the test said
AfterGdkCheck_AlwaysPoll(outcome) == "poll_start"

\* the strategy _runner picks after the backend test (lines 481-500)
AfterGdkCheck(outcome) == IF outcome = "x11" THEN "gdk_set" ELSE "poll_start"

\* lines 474-488, 491-500: import the toolkit, test the backend, connect the
\* owner-change handler or fall back to polling
RunnerGdkCheck ==
    /\ wpc = "gdk_check"
    /\ \E outcome \in GdkOutcomes :
        /\ gdk_probe' = outcome
        /\ wpc' = AfterGdkCheck(outcome)
    /\ attempts' = Append(attempts, "event")
    /\ wl_fail' = "none"
    /\ UNCHANGED <<callback_update, clipboard_thread, block_image_once,
                   is_gdk_running, run_poll, wayland_monitor, args, mon, poll,
                   gtk_loop, logVars, reported, repeat, last_call, benign_since,
                   wlObs, callerVars, envVars, clsVars>>

\* line 489: _is_gdk_running = True
RunnerSetGdkRunning ==
    /\ wpc = "gdk_set"
    /\ is_gdk_running' = TRUE
    /\ wpc' = "gdk_main"
    /\ gdk_probe' = "none"
    /\ UNCHANGED <<callback_update, clipboard_thread, block_image_once, run_poll,
                   wayland_monitor, args, mon, poll, gtk_loop, logVars, reported,
                   repeat, last_call, attempts, wl_fail, benign_since, wlObs,
                   callerVars, envVars, clsVars>>

\* line 490: Gtk.main() starts the main loop
RunnerGtkMain ==
    /\ wpc = "gdk_main"
    /\ gtk_loop' = "running"
    /\ wpc' = "gdk_loop"
    /\ UNCHANGED <<callback_update, clipboard_thread, block_image_once,
                   is_gdk_running, run_poll, wayland_monitor, args, mon, poll,
                   obsVars, callerVars, envVars, clsVars>>

\* line 490: Gtk.main() returns once the loop was quit, and _runner returns
RunnerGtkMainReturns ==
    /\ wpc = "gdk_loop"
    /\ gtk_loop = "quit"
    /\ gtk_loop' = "none"
    /\ wpc' = "exited"
    /\ UNCHANGED <<callback_update, clipboard_thread, block_image_once,
                   is_gdk_running, run_poll, wayland_monitor, args, mon, poll,
                   obsVars, callerVars, envVars, clsVars>>

\* _start_clipboard_polling (lines 438-455), called at line 495 or line 500:
\* the tool is chosen once, xclip when XMODE is set and xclip answers,
\* wl-paste otherwise; the executor starts with no value read
RunnerStartPolling ==
    /\ wpc = "poll_start"
    /\ \E x_mode \in BOOLEAN :
        poll' = [NewPoll EXCEPT !.x_mode = x_mode, !.in_try = (gdk_probe = "other")]
    /\ attempts' = IF attempts # <<>> /\ attempts[Len(attempts)] = "polling"
                   THEN attempts
                   ELSE Append(attempts, "polling")
    /\ IF gdk_probe = "throws" THEN Log(RunnerErrorMsg) ELSE NoLog
    /\ reported' = PyNone
    /\ repeat' = FALSE
    /\ wpc' = "poll_check"
    /\ gdk_probe' = "none"
    /\ UNCHANGED <<callback_update, clipboard_thread, block_image_once,
                   is_gdk_running, run_poll, wayland_monitor, args, mon, gtk_loop,
                   last_call, wl_fail, benign_since, wlObs, callerVars, envVars,
                   clsVars>>

----------------------------------------------------------------------------
(* Delivery of an image, shared shape of lines 91-96 and 336-341:          *)
(*     previous_clipboard = data                                           *)
(*     if _callback_update and not _block_image_once: callback(...)        *)
(*     else: _block_image_once = False                                     *)

ForwardImage_KeepFlag(val) ==
    IF callback_update # "None" /\ ~block_image_once
    THEN Call("image", val) /\ UNCHANGED block_image_once
    ELSE NoCallNow /\ UNCHANGED block_image_once

ForwardImage(val) ==
    IF callback_update # "None" /\ ~block_image_once
    THEN Call("image", val) /\ UNCHANGED block_image_once
    ELSE NoCallNow /\ block_image_once' = FALSE

----------------------------------------------------------------------------
(* The Protocol Client: _WaylandClipboardMonitor (lines 31-218).           *)

\* start() up to line 179: everything bound, or one of its three ways to
\* return False (lines 153-159, 161-164, 188-191)
WlOpenOutcomes == {"ok", "no_manager", "no_seat", "exception"}

\* the monitors start() can have built when it gives up: the display alone
\* (line 136) without the manager, display and manager without a seat, and
\* for an exception nothing yet or the display whose connect raised
WlOpenReached(m, outcome) ==
    CASE outcome = "no_manager" -> {[m EXCEPT !.display = TRUE]}
      [] outcome = "no_seat" ->
            {[m EXCEPT !.display = TRUE, !.data_control_manager = TRUE]}
      [] OTHER -> {m, [m EXCEPT !.display = TRUE]}

\* self.stop() of the monitor reached, run by start() before it returns False
WlGiveUp(reached, kept) ==
    /\ \E raises \in TeardownRaises :
        /\ mon' = MonitorStopped(reached, raises)
        /\ teardown' = TeardownOf(reached, raises)
    /\ offers' = OffersAbandoned(offers, kept)
    /\ wpc' = "wl_failed"

\* start (lines 133-179): connect, bind the globals, create the data device
WlOpen ==
    /\ wpc = "wl_open"
    /\ \E outcome \in WlOpenOutcomes :
        IF outcome = "ok"
        THEN /\ mon' = [mon EXCEPT !.display = TRUE, !.data_control_manager = TRUE,
                                   !.seat = TRUE, !.data_device = TRUE]
             /\ wpc' = "wl_run"
             /\ UNCHANGED <<wl_fail, wlObs>>
        ELSE \* lines 153-164, 188-191: self.stop(); return False
             /\ \E reached \in WlOpenReached(mon, outcome) : WlGiveUp(reached, FALSE)
             /\ wl_fail' = outcome
    /\ UNCHANGED <<callback_update, clipboard_thread, block_image_once,
                   is_gdk_running, run_poll, wayland_monitor, args, poll, gtk_loop,
                   logVars, reported, repeat, last_call, attempts, gdk_probe,
                   benign_since, callerVars, envVars, clsVars>>

\* start (lines 181-182): self.running = True; self.display.roundtrip().
\* With the display already cleared by stop() the call raises and the
\* except clause (lines 188-191) stops the monitor and returns False.
WlSetRunning ==
    /\ wpc = "wl_run"
    /\ IF mon.display
       THEN /\ mon' = [mon EXCEPT !.running = TRUE]
            /\ wpc' = "wl_loop"
            /\ UNCHANGED <<wl_fail, wlObs>>
       ELSE /\ WlGiveUp(mon, FALSE)
            /\ wl_fail' = "exception"
    /\ UNCHANGED <<callback_update, clipboard_thread, block_image_once,
                   is_gdk_running, run_poll, wayland_monitor, args, poll, gtk_loop,
                   logVars, reported, repeat, last_call, attempts, gdk_probe,
                   benign_since, callerVars, envVars, clsVars>>

\* start (lines 184, 187): the loop condition; start returns True and
\* _runner returns (line 468) when it is false.  A monitor that leaves the
\* loop on _run_poll alone was never stopped: its connection and its offers
\* stay as they are.
WlLoopTest ==
    /\ wpc = "wl_loop"
    /\ IF mon.running /\ run_poll
       THEN wpc' = "wl_dispatch" /\ UNCHANGED <<mon, offers>>
       ELSE /\ wpc' = "exited"
            /\ mon' = NewMonitor
            /\ offers' = IF mon.display
                         THEN OffersAbandoned(offers, mon.current_offer)
                         ELSE offers
    /\ UNCHANGED <<callback_update, clipboard_thread, block_image_once,
                   is_gdk_running, run_poll, wayland_monitor, args, poll, gtk_loop,
                   logVars, reported, repeat, last_call, attempts, wl_fail,
                   gdk_probe, benign_since, teardown, callerVars, envVars, clsVars>>

\* start (lines 185, 188-191): dispatch raises (the connection was lost, or
\* stop() disconnected the display under the worker)
WlDispatchRaises ==
    /\ wpc = "wl_dispatch"
    /\ WlGiveUp(mon, FALSE)
    /\ wl_fail' = "exception"
    /\ UNCHANGED <<callback_update, clipboard_thread, block_image_once,
                   is_gdk_running, run_poll, wayland_monitor, args, poll, gtk_loop,
                   logVars, reported, repeat, last_call, attempts, gdk_probe,
                   benign_since, callerVars, envVars, clsVars>>

\* start (line 185): dispatch returns without an event although stop() has
\* disconnected the display (the other outcome of that race)
WlDispatchReturns ==
    /\ wpc = "wl_dispatch"
    /\ ~mon.display
    /\ wpc' = "wl_loop"
    /\ UNCHANGED <<callback_update, clipboard_thread, block_image_once,
                   is_gdk_running, run_poll, wayland_monitor, args, mon, poll,
                   gtk_loop, obsVars, callerVars, envVars, clsVars>>

wlFrame == <<callback_update, clipboard_thread, is_gdk_running, run_poll,
             wayland_monitor, args, poll, gtk_loop, logVars, attempts,
             wl_fail, gdk_probe, benign_since, teardown, callerVars, envVars,
             clsVars>>

\* the two events an offer can be announced for
OfferKinds == {"selection", "primary"}

\* on_data_offer, _handle_data_offer (lines 48-54, 168-169): the compositor
\* announces a new offer, for the selection or for the primary selection;
\* the handler empties the one MIME list of the monitor
WlDataOffer ==
    /\ wpc = "wl_dispatch"
    /\ mon.display
    /\ \E kind \in OfferKinds :
        /\ kind = "selection" => ~offers.selection
        /\ offers' = [offers EXCEPT ![kind] = TRUE, !.announced = kind]
    /\ mon' = [mon EXCEPT !.current_offer_mime_types = <<>>]
    /\ wpc' = "wl_loop"
    /\ NoReport
    /\ UNCHANGED block_image_once
    /\ UNCHANGED wlFrame

\* on_offer (lines 51-52): the offer announced last, not handed over yet,
\* announces one MIME type; the handler appends it to the monitor's list
WlOfferMime ==
    /\ wpc = "wl_dispatch"
    /\ mon.display
    /\ offers.announced # "none"
    /\ offers[offers.announced]
    /\ Len(mon.current_offer_mime_types) < MaxMimes
    /\ \E mime_type \in WlMimes :
        mon' = [mon EXCEPT !.current_offer_mime_types = Append(@, mime_type)]
    /\ wpc' = "wl_loop"
    /\ NoReport
    /\ UNCHANGED <<block_image_once, offers>>
    /\ UNCHANGED wlFrame

\* on_primary_selection (lines 174-175): the compositor hands over an offer
\* it announced for the primary selection, or None; the handler does nothing,
\* so no offer of the primary selection is ever destroyed
WlPrimarySelection ==
    /\ wpc = "wl_dispatch"
    /\ mon.display
    /\ wpc' = "wl_loop"
    /\ NoReport
    /\ UNCHANGED <<block_image_once, mon, offers>>
    /\ UNCHANGED wlFrame

\* next((m for m in mime_types if m.startswith("image/png")), None), "" for None
RECURSIVE FirstPng(_)
FirstPng(mime_types) ==
    IF mime_types = <<>> THEN ""
    ELSE IF StartsWith(Head(mime_types), "image/png") THEN Head(mime_types)
    ELSE FirstPng(Tail(mime_types))

\* the MIME type requested for an image (lines 85-89)
WlImageMime(mime_types) ==
    IF FirstPng(mime_types) # "" THEN FirstPng(mime_types) ELSE mime_types[1]

\* the payloads a source can hold for a kind
PayloadsOf(type_) ==
    CASE type_ = "text" -> TextPayloads
      [] type_ = "image" -> ImagePayloads
      [] type_ = "files" -> FilePayloads
      [] OTHER -> {""}

\* _handle_selection, text branch (lines 73-82); data is what the two
\* _receive_data calls left (empty for None); a decode error ends the handler
WlText(m, data) ==
    IF data # "" /\ ~DecodeFails(data)
    THEN /\ Report(Decode(data))
         /\ IF ~PyEq(Decode(data), m.previous_clipboard)
            THEN /\ mon' = [m EXCEPT !.previous_clipboard = Decode(data)]
                 /\ Call("text", Decode(data))
            ELSE mon' = m /\ NoCallNow
    ELSE mon' = m /\ NoReport

\* the image branch where only an image passed to the callback is remembered
WlImage_RecordsDelivered(m, data) ==
    IF data # ""
    THEN /\ Report(Bytes(data))
         /\ IF ~PyEq(Bytes(data), m.previous_clipboard)
            THEN /\ mon' = IF callback_update # "None" /\ ~block_image_once
                           THEN [m EXCEPT !.previous_clipboard = Bytes(data)]
                           ELSE m
                 /\ ForwardImage(Bytes(data))
            ELSE mon' = m /\ NoCallNow /\ UNCHANGED block_image_once
    ELSE mon' = m /\ NoReport /\ UNCHANGED block_image_once

\* _handle_selection, image branch (lines 84-96)
WlImage(m, data) ==
    IF data # ""
    THEN /\ Report(Bytes(data))
         /\ IF ~PyEq(Bytes(data), m.previous_clipboard)
            THEN /\ mon' = [m EXCEPT !.previous_clipboard = Bytes(data)]
                 /\ ForwardImage(Bytes(data))
            ELSE mon' = m /\ NoCallNow /\ UNCHANGED block_image_once
    ELSE mon' = m /\ NoReport /\ UNCHANGED block_image_once

\* _handle_selection, files branch (lines 98-107)
WlFiles(m, data) ==
    IF data # "" /\ ~DecodeFails(data) /\ FilesOf(data) # <<>>
    THEN /\ Report(List(FilesOf(data)))
         /\ IF ~PyEq(List(FilesOf(data)), m.previous_clipboard)
            THEN /\ mon' = [m EXCEPT !.previous_clipboard = List(FilesOf(data))]
                 /\ Call("files", List(FilesOf(data)))
            ELSE mon' = m /\ NoCallNow
    ELSE mon' = m /\ NoReport

\* on_selection, _handle_selection (lines 56-107, 171-172): the compositor
\* hands over the offer it announced for the selection (given), or None.
\* The handler destroys the offer it held, adopts the new one and classifies
\* the monitor's MIME list; first and second are the payloads the source
\* holds for the first and, for text, the second MIME type requested
WlSelection ==
    /\ wpc = "wl_dispatch"
    /\ mon.display
    /\ \E given \in BOOLEAN :
        LET m == [mon EXCEPT !.current_offer = given]
            type_ == convert_mime_to_generic_type(mon.current_offer_mime_types)
        IN  /\ given => offers.selection
            /\ offers' = [offers EXCEPT !.selection = IF given THEN FALSE ELSE @]
            /\ IF ~given
               THEN mon' = m /\ NoReport /\ UNCHANGED block_image_once
               ELSE \E first \in PayloadsOf(type_), second \in PayloadsOf(type_) :
                   CASE type_ = "text" ->
                           /\ WlText(m, IF first # "" THEN first ELSE second)
                           /\ UNCHANGED block_image_once
                     [] type_ = "image" /\ args.image ->
                           /\ second = ""
                           /\ WlImage(m, first)
                     [] type_ = "files" /\ args.files ->
                           /\ second = ""
                           /\ WlFiles(m, first)
                           /\ UNCHANGED block_image_once
                     [] OTHER ->
                           /\ first = "" /\ second = ""
                           /\ mon' = m /\ NoReport
                           /\ UNCHANGED block_image_once
    /\ wpc' = "wl_loop"
    /\ UNCHANGED wlFrame

----------------------------------------------------------------------------
(* The Event-Bound Listener: _on_clipboard_changed (lines 224-257).        *)

\* what the toolkit clipboard answers to wait_for_uris / wait_for_text
GtkUris == {PyNone, List(<<>>), List(<<"/f", "/g">>)}

GtkTexts == {PyNone, Str(""), Str("a")}

\* wait_for_image: a pixbuf, or "None"
GtkPixbufs == {"None", "P"}

\* bytes(buffer) of pixbuf.save_to_bufferv("png"): the PNG encoding of the pixbuf
EncodePng(pixbuf) == Bytes("png:" \o pixbuf)

gtkFrame == <<callback_update, clipboard_thread, is_gdk_running, run_poll,
              wayland_monitor, wpc, args, mon, poll, gtk_loop, logVars,
              attempts, wl_fail, gdk_probe, benign_since, wlObs, callerVars,
              envVars, clsVars>>

\* lines 244-257: the image branch; success is what save_to_bufferv returns
GtkImage(pixbuf, success) ==
    IF args.image /\ pixbuf # "None"
    THEN IF block_image_once
         THEN /\ block_image_once' = FALSE
              /\ Report(EncodePng(pixbuf))
              /\ NoCallNow
         ELSE /\ UNCHANGED block_image_once
              /\ IF success
                 THEN Report(EncodePng(pixbuf)) /\ Call("image", EncodePng(pixbuf))
                 ELSE NoReport
    ELSE NoReport /\ UNCHANGED block_image_once

\* _on_clipboard_changed (lines 224-257), run by the main loop on owner-change
GtkOwnerChange ==
    /\ wpc = "gdk_loop"
    /\ gtk_loop = "running"
    /\ \E uris \in GtkUris, text \in GtkTexts, pixbuf \in GtkPixbufs, success \in BOOLEAN :
        IF args.files /\ Truthy(uris)
        THEN /\ text = PyNone /\ pixbuf = "None" /\ success
             /\ Report(uris)
             /\ Call("files", uris)
             /\ UNCHANGED block_image_once
        ELSE IF Truthy(text)
        THEN /\ pixbuf = "None" /\ success
             /\ Report(text)
             /\ Call("text", text)
             /\ UNCHANGED block_image_once
        ELSE GtkImage(pixbuf, success)
    /\ UNCHANGED gtkFrame

----------------------------------------------------------------------------
(* The Polling Executor: _monitor_x_wl_clipboard (lines 260-385).          *)

pollFrame == <<callback_update, clipboard_thread, is_gdk_running, run_poll,
               wayland_monitor, args, mon, gtk_loop, attempts, wl_fail, wlObs,
               callerVars, envVars, clsVars>>

\* line 278: while _run_poll.is_set(); the function, and _runner, return when not
PollLoopTest ==
    /\ wpc = "poll_check"
    /\ IF run_poll
       THEN wpc' = "poll_body" /\ UNCHANGED <<poll, benign_since>>
       ELSE wpc' = "exited" /\ poll' = NewPoll /\ benign_since' = FALSE
    /\ UNCHANGED <<callback_update, clipboard_thread, block_image_once,
                   is_gdk_running, run_poll, wayland_monitor, args, mon, gtk_loop,
                   logVars, reported, repeat, last_call, attempts, wl_fail,
                   gdk_probe, wlObs, callerVars, envVars, clsVars>>

ListErrors == IF poll.x_mode THEN XclipListErrors ELSE WlPasteListErrors

FetchErrors == IF poll.x_mode THEN XclipFetchErrors ELSE WlPasteFetchErrors

\* the iteration ended in the error error_msg and read no value
PollErrorSeen(error_msg) ==
    /\ benign_since' = (benign_since \/ IsIgnored(error_msg))
    /\ wpc' = "poll_check"
    /\ NoReport
    /\ UNCHANGED <<block_image_once, gdk_probe>>

\* lines 285-291: the MIME listing failed
PollListFailed(error_msg) ==
    /\ IF error_msg # poll.last_error
       THEN Log(error_msg) /\ poll' = [poll EXCEPT !.last_error = error_msg]
       ELSE NoLog /\ UNCHANGED poll
    /\ PollErrorSeen(error_msg)

\* lines 313-320, 343-350, 376-383 where a benign error also forgets the
\* value delivered last
PollFetchFailed_ResetsDedup(error_msg) ==
    /\ IF error_msg # poll.last_error
       THEN /\ IF ~IsIgnored(error_msg) THEN Log(error_msg) ELSE NoLog
            /\ poll' = [poll EXCEPT !.last_error = error_msg,
                           !.previous_clipboard =
                               IF IsIgnored(error_msg) THEN PyNone ELSE @]
       ELSE NoLog /\ UNCHANGED poll
    /\ PollErrorSeen(error_msg)

\* lines 313-320, 343-350, 376-383: a payload fetch failed
PollFetchFailed(error_msg) ==
    /\ IF error_msg # poll.last_error
       THEN /\ IF ~IsIgnored(error_msg) THEN Log(error_msg) ELSE NoLog
            /\ poll' = [poll EXCEPT !.last_error = error_msg]
       ELSE NoLog /\ UNCHANGED poll
    /\ PollErrorSeen(error_msg)

\* a decode (lines 293, 307, 368) raises UnicodeDecodeError, which nothing in
\* the executor catches.  Raised under the call of line 495 it reaches the
\* except clause of _runner (lines 496-500), which starts the executor again
\* with fresh locals; raised under the call of line 500 it leaves _runner and
\* the thread dies.
PollCrash ==
    /\ IF poll.in_try
       THEN /\ wpc' = "poll_start"
            /\ gdk_probe' = "throws"
       ELSE /\ wpc' = "crashed"
            /\ UNCHANGED gdk_probe
    /\ NoReport
    /\ poll' = NewPoll
    /\ benign_since' = FALSE
    /\ NoLog /\ UNCHANGED block_image_once

\* the iteration read val and compares it with previous_clipboard
PollRead(val) ==
    /\ wpc' = "poll_check"
    /\ NoLog
    /\ Report(val)
    /\ benign_since' = FALSE
    /\ UNCHANGED gdk_probe

\* the iteration fetched nothing it acts on
PollNothing ==
    /\ wpc' = "poll_check"
    /\ NoLog /\ NoReport
    /\ UNCHANGED <<poll, benign_since, block_image_once, gdk_probe>>

\* lines 306-311: the text fetch succeeded
PollText(text) ==
    IF DecodeFails(text) THEN PollCrash
    ELSE IF text # ""
    THEN /\ PollRead(Decode(text))
         /\ UNCHANGED block_image_once
         /\ IF ~PyEq(Decode(text), poll.previous_clipboard)
            THEN /\ poll' = [poll EXCEPT !.previous_clipboard = Decode(text)]
                 /\ Call("text", Decode(text))
            ELSE UNCHANGED poll /\ NoCallNow
    ELSE PollNothing

\* lines 335-341: the image fetch succeeded
PollImage(image) ==
    /\ PollRead(Bytes(image))
    /\ IF ~PyEq(Bytes(image), poll.previous_clipboard)
       THEN /\ poll' = [poll EXCEPT !.previous_clipboard = Bytes(image)]
            /\ ForwardImage(Bytes(image))
       ELSE UNCHANGED poll /\ NoCallNow /\ UNCHANGED block_image_once

\* lines 367-374: the files fetch succeeded
PollFiles(files) ==
    IF DecodeFails(files) THEN PollCrash
    ELSE /\ PollRead(List(FilesOf(files)))
         /\ UNCHANGED block_image_once
         /\ IF ~PyEq(List(FilesOf(files)), poll.previous_clipboard)
            THEN /\ poll' = [poll EXCEPT !.previous_clipboard = List(FilesOf(files))]
                 /\ Call("files", List(FilesOf(files)))
            ELSE UNCHANGED poll /\ NoCallNow

\* lines 298-383: the payload fetch for the classified kind
PollFetch(type_) ==
    CASE type_ = "text" ->
            \/ \E text \in TextPayloads : PollText(text)
            \/ \E e \in FetchErrors : PollFetchFailed(TextPrefix \o e)
      [] type_ = "image" /\ args.image ->
            \/ \E image \in ImagePayloads : PollImage(image)
            \/ \E e \in FetchErrors : PollFetchFailed(ImagePrefix \o e)
      [] type_ = "files" /\ args.files ->
            \/ \E files \in FilePayloads : PollFiles(files)
            \/ \E e \in FetchErrors : PollFetchFailed(FilesPrefix \o e)
      [] OTHER -> PollNothing

\* one iteration of the loop (lines 279-385), up to the sleep
PollIteration ==
    /\ wpc = "poll_body"
    /\ \/ \E e \in ListErrors : PollListFailed(MimePrefix \o e)
       \/ \E mime_list \in ListingOutputs :
            IF DecodeFails(mime_list) THEN PollCrash
            ELSE PollFetch(ListingType(mime_list))
    /\ UNCHANGED pollFrame

----------------------------------------------------------------------------
(* The classifier harness: convert_mime_to_generic_type on a MIME list.    *)

Classify ==
    /\ cls_out = "pending"
    /\ cls_out' = convert_mime_to_generic_type(cls_in)
    /\ UNCHANGED <<cls_in, req_out, progVars, callerVars, obsVars, envVars>>

ClassifyInit ==
    /\ ProgInit
    /\ ext_support = FALSE
    /\ cls_in \in SeqsUpTo(ClsMimes, MaxLen)
    /\ cls_out = "pending"
    /\ req_out = NoRequest

ClassifySpec == ClassifyInit /\ [][Classify]_vars

----------------------------------------------------------------------------
(* The request harness: for one advertised MIME list and one pair of       *)
(* enable flags, the MIME type each fetching strategy names in its payload *)
(* request ("" when it names none).                                        *)

\* _handle_selection (lines 73-74, 84-89, 98-99): the type passed to the
\* first _receive_data call
WlRequest(type_, mime_types, enable_image, enable_file) ==
    CASE type_ = "text" -> "text/plain;charset=utf-8"
      [] type_ = "image" /\ enable_image -> WlImageMime(mime_types)
      [] type_ = "files" /\ enable_file -> "text/uri-list"
      [] OTHER -> ""

\* _monitor_x_wl_clipboard (lines 299-305, 323-334, 353-366): the type after
\* -t on the command line of xclip or wl-paste; the text fetch passes none
PollRequest(type_, enable_image, enable_file) ==
    CASE type_ = "image" /\ enable_image -> "image/png"
      [] type_ = "files" /\ enable_file -> "text/uri-list"
      [] OTHER -> ""

Request ==
    /\ cls_out # "pending"
    /\ ~req_out.done
    /\ \E enable_image \in BOOLEAN, enable_file \in BOOLEAN :
        req_out' = [done |-> TRUE, image |-> enable_image, files |-> enable_file,
                    wl |-> WlRequest(cls_out, cls_in, enable_image, enable_file),
                    poll |-> PollRequest(cls_out, enable_image, enable_file)]
    /\ UNCHANGED <<cls_in, cls_out, progVars, callerVars, obsVars, envVars>>

RequestSpec == ClassifyInit /\ [][Classify \/ Request]_vars

----------------------------------------------------------------------------
(* The monitor.                                                            *)

CallerNext ==
    \/ OnUpdate
    \/ EnableBlockImageOnce
    \/ StopNoSession
    \/ StopSignal
    \/ StopClear
    \/ StopJoin

WorkerNext ==
    \/ RunnerSetRunPoll
    \/ RunnerSelect
    \/ RunnerCallStart
    \/ RunnerFallBack
    \/ RunnerGdkCheck
    \/ RunnerSetGdkRunning
    \/ RunnerGtkMain
    \/ RunnerGtkMainReturns
    \/ RunnerStartPolling
    \/ WlOpen
    \/ WlSetRunning
    \/ WlLoopTest
    \/ WlDispatchRaises
    \/ WlDispatchReturns
    \/ WlDataOffer
    \/ WlOfferMime
    \/ WlPrimarySelection
    \/ WlSelection
    \/ GtkOwnerChange
    \/ PollLoopTest
    \/ PollIteration

Next == CallerNext \/ WorkerNext

Spec == Init /\ [][Next]_vars

\* The worker thread is scheduled fairly, and a stop() in progress keeps
\* running: it clears _run_poll, and its join returns once the worker is dead.
FairSpec ==
    /\ Spec
    /\ WF_vars(WorkerNext)
    /\ WF_vars(StopClear)
    /\ WF_vars(StopJoin)

----------------------------------------------------------------------------
(* Properties.                                                             *)

ReadPcs == {"wl_dispatch", "gdk_loop", "poll_body"}

\* a step of the active strategy that read a value from its source: the
\* observation of the last read changes, and reported' is the value read
ReadStep ==
    /\ wpc \in ReadPcs
    /\ (reported' # reported \/ repeat' # repeat \/ last_call' # last_call)

\* the invocation that passes the value just read to the registered callback
Delivered(kind) == [cb |-> callback_update, kind |-> kind, val |-> reported']

\* C1 (as stated): in every strategy, a value that the source reports twice
\* in a row is not passed to the callback the second time.
C1_RepeatNotDelivered == repeat => last_call = NoCall

\* C2: once stop() has returned, so that no thread is registered, the worker
\* has exited, and no later step invokes a callback until a new session starts.
C2_StopIsFinal ==
    [][(clipboard_thread' = "None" /\ cpc' = "idle") =>
            /\ wpc' \in {"none", "exited", "crashed"}
            /\ clipboard_thread = "None" =>
                  (last_call' = last_call \/ last_call' = NoCall)]_vars

\* a stop() has returned after a session in which a value was delivered
C2_Witness ==
    /\ clipboard_thread = "None"
    /\ cpc = "idle"
    /\ wpc = "exited"
    /\ last_call # NoCall

\* C3 (as stated): with the worker scheduled fairly, every stop() of a
\* session eventually returns.
C3_StopReturns == (cpc # "idle") ~> (cpc = "idle")

\* C4 (as stated): on_update() during a session changes nothing, the callback
\* registered first stays registered.
C4_ReinvocationChangesNothing ==
    [][(clipboard_thread = "thread" /\ clipboard_thread' = "thread") =>
            callback_update' = callback_update]_vars

\* C4 (amended): on_update() during a session replaces the registered
\* callback and nothing else (no new worker, the session's flags and strategy
\* state stay), and every later delivery goes to the callback registered at
\* that moment.
C4_ReinvocationReplacesCallback ==
    [][/\ (/\ clipboard_thread = "thread"
           /\ clipboard_thread' = "thread"
           /\ callback_update' # callback_update) =>
              /\ callback_update' \in Callbacks
              /\ wpc' = wpc /\ args' = args /\ mon' = mon /\ poll' = poll
              /\ block_image_once' = block_image_once
              /\ is_gdk_running' = is_gdk_running /\ run_poll' = run_poll
              /\ wayland_monitor' = wayland_monitor /\ gtk_loop' = gtk_loop
       /\ (last_call' # last_call /\ last_call' # NoCall) =>
              last_call'.cb = callback_update]_vars

\* a running session delivered to the first callback and now has the second
C4_Witness ==
    /\ clipboard_thread = "thread"
    /\ last_call.cb = "cb1"
    /\ callback_update = "cb2"

\* C5: an image that would be delivered (read by the Event-Bound Listener, or
\* differing from the value read last in the other two strategies) is withheld
\* and clears the flag when the flag is set, and is forwarded when it is clear;
\* a text or files read leaves the flag alone and is forwarded whatever the
\* flag; the flag is cleared only by a withheld image or by stop().
C5_BlockImageOnce ==
    [][/\ (ReadStep /\ reported'.ty = "bytes" /\ (wpc = "gdk_loop" \/ ~repeat')) =>
              /\ ~block_image_once'
              /\ last_call' = IF block_image_once THEN NoCall ELSE Delivered("image")
       /\ (ReadStep /\ reported'.ty \in {"str", "list"}) =>
              /\ block_image_once' = block_image_once
              /\ (wpc = "gdk_loop" \/ ~repeat') =>
                    last_call' = Delivered(IF reported'.ty = "str" THEN "text"
                                                                  ELSE "files")
       /\ (block_image_once /\ ~block_image_once') =>
              \/ cpc = "stop_join"
              \/ wpc \in ReadPcs /\ reported'.ty = "bytes" /\ last_call' = NoCall]_vars

\* a new image was read and withheld, and the flag is clear again
C5_Witness ==
    /\ clipboard_thread = "thread"
    /\ reported.ty = "bytes"
    /\ ~repeat
    /\ last_call = NoCall
    /\ ~block_image_once

\* C6: a stop() with no session returns at once, without waiting in a join,
\* and leaves every global and the worker's state as they were.
C6_StopWithoutSession ==
    [][(clipboard_thread = "None" /\ last_op # "stop_noop" /\ last_op' = "stop_noop") =>
            /\ cpc = "idle" /\ cpc' = "idle"
            /\ callback_update' = callback_update
            /\ clipboard_thread' = clipboard_thread
            /\ block_image_once' = block_image_once
            /\ is_gdk_running' = is_gdk_running /\ run_poll' = run_poll
            /\ wayland_monitor' = wayland_monitor /\ gtk_loop' = gtk_loop
            /\ wpc' = wpc /\ args' = args /\ mon' = mon /\ poll' = poll]_vars

\* stop() was called again after a completed stop(), with the flag armed
C6_Witness ==
    /\ last_op = "stop_noop"
    /\ wpc = "exited"
    /\ block_image_once

ClsRange == {cls_in[i] : i \in 1..Len(cls_in)}

\* C7: the classifier returns "files" for a list containing text/uri-list,
\* else "image" if an entry starts with image/, else "text" if the list holds
\* one of the six text names, else "unknown"; so [] gives "unknown" and
\* ["STRING"] gives "text".
C7_ClassifierRule ==
    cls_out # "pending" =>
        /\ cls_out =
              IF "text/uri-list" \in ClsRange THEN "files"
              ELSE IF \E m \in ClsRange : Len(m) >= 6 /\ SubSeq(m, 1, 6) = "image/"
              THEN "image"
              ELSE IF ClsRange \cap {"text/plain", "text/plain;charset=utf-8", "STRING",
                                     "TEXT", "COMPOUND_TEXT", "UTF8_STRING"} # {}
              THEN "text"
              ELSE "unknown"
        /\ cls_in = <<>> => cls_out = "unknown"
        /\ cls_in = <<"STRING">> => cls_out = "text"

\* a list with text/uri-list and an image/ entry was classified as files
C7_Witness ==
    /\ cls_out = "files"
    /\ \E m \in ClsRange : StartsWith(m, "image/")

\* C8: the worker attempts the Protocol Client only when it is supported, the
\* Event-Bound Listener first when it is not and otherwise only after start()
\* returned False, and the Polling Executor only after the backend check of
\* the Event-Bound Listener answered another backend or threw; when the check
\* finds x11 the listener runs, and from the listener the worker never goes on
\* to polling.
C8_StrategyOrder ==
    [][/\ (attempts' # attempts /\ attempts' # <<>>) =>
              \/ attempts' = <<"protocol">> /\ ext_support
              \/ attempts' = <<"event">> /\ ~ext_support
              \/ /\ attempts' = <<"protocol", "event">>
                 /\ wl_fail \in {"no_manager", "no_seat", "exception"}
              \/ /\ attempts # <<>>
                 /\ attempts[Len(attempts)] = "event"
                 /\ attempts' = Append(attempts, "polling")
                 /\ gdk_probe \in {"other", "throws"}
       /\ gdk_probe' = "x11" => wpc' = "gdk_set"
       /\ wpc \in {"gdk_set", "gdk_main", "gdk_loop"} =>
              wpc' \in {"gdk_set", "gdk_main", "gdk_loop", "exited"}]_vars

\* the Protocol Client failed and the Event-Bound Listener is running
C8_Witness ==
    /\ attempts = <<"protocol", "event">>
    /\ wpc = "gdk_loop"

\* C9 (as stated): the Polling Executor never logs a message that matches an
\* ignore pattern.
C9_BenignNeverLogged == last_logged = "None" \/ ~IsIgnored(last_logged)

C11_PollFailureAbsorbed == [][wpc = "poll_body" => wpc' # "crashed"]_vars

\* C12 (as stated): when on_update() returns a worker is running, whether it
\* was already running or the call found no live worker and started one.
C12_OnUpdateStartsWorker ==
    [][(/\ cpc = "idle" /\ cpc' = "idle"
        /\ callback_update' # "None"
        /\ (callback_update' # callback_update \/ clipboard_thread' # clipboard_thread)) =>
            wpc' \notin {"none", "exited", "crashed"}]_vars

\* C13 (as stated): whenever the selection handler adopts an offer, the MIME
\* list it classifies holds the MIME types announced by that offer, not those
\* of another offer announced after it.
C13_ClassifiesOwnMimes ==
    [][(/\ wpc = "wl_dispatch" /\ wpc' = "wl_loop"
        /\ offers.selection /\ ~offers'.selection) =>
            offers.announced = "selection"]_vars

\* C14 (as stated): the monitor holds at most one current offer, and when a
\* session of the Protocol Client is over no offer the compositor announced
\* in it is left undestroyed.
C14_NoOfferLeftUndestroyed == ~offers.orphaned

\* C15: a stop of the Protocol Client attempts, in the order current offer,
\* data device, manager, display, every resource whose reference is set,
\* whichever of the calls raises, and leaves the running flag false and the
\* four references cleared.
C15_TeardownBestEffort ==
    [][(teardown'.done /\ teardown' # teardown) =>
            /\ \E held \in SUBSET {"current_offer", "data_device",
                                    "data_control_manager", "display"} :
                  /\ teardown'.tried =
                        SelectSeq(<<"current_offer", "data_device",
                                    "data_control_manager", "display">>,
                                  LAMBDA f : f \in held)
                  /\ wpc # "wl_open" =>
                        held = {f \in {"current_offer", "data_device",
                                       "data_control_manager", "display"} : mon[f]}
            /\ ~mon'.running /\ ~mon'.current_offer /\ ~mon'.data_device
            /\ ~mon'.data_control_manager /\ ~mon'.display]_vars

\* a stop in which destroying the current offer raised went on to the data
\* device, the manager and the display, and cleared everything
C15_Witness ==
    /\ teardown.done
    /\ teardown.raised = "current_offer"
    /\ teardown.tried = <<"current_offer", "data_device", "data_control_manager",
                          "display">>
    /\ ~mon.display /\ ~mon.data_device

\* C16 (as stated): the Polling Executor never writes to the log the message
\* it wrote there last, whatever failing, benign and succeeding iterations
\* lie in between.
C16_NoRepeatedLog == ~relogged

\* C17 (as stated): for the same advertised MIME list and enable flags the
\* Polling Executor requests the MIME type the Protocol Client requests: for
\* an image an advertised image/png variant if there is one and else the
\* first advertised type, for files text/uri-list.
C17_SameRequest ==
    (req_out.done /\ cls_out \in {"image", "files"}) =>
        /\ req_out.poll = req_out.wl
        /\ (cls_out = "image" /\ req_out.image) =>
              req_out.poll =
                  IF \E i \in 1..Len(cls_in) : StartsWith(cls_in[i], "image/png")
                  THEN cls_in[CHOOSE i \in 1..Len(cls_in) :
                                 /\ StartsWith(cls_in[i], "image/png")
                                 /\ \A j \in 1..(i - 1) : ~StartsWith(cls_in[j], "image/png")]
                  ELSE cls_in[1]
        /\ (cls_out = "files" /\ req_out.files) => req_out.poll = "text/uri-list"

\* the kind under which a value of a Python type is delivered
KindOf(val) ==
    CASE val.ty = "str" -> "text" [] val.ty = "bytes" -> "image" [] OTHER -> "files"

\* C18 (as stated): previous_clipboard of the Protocol Client and of the
\* Polling Executor is only ever set to a value that is passed to the
\* callback in the same step.
C18_DedupIsLastDelivered ==
    [][/\ (/\ mon'.previous_clipboard # mon.previous_clipboard
           /\ mon'.previous_clipboard # PyNone) =>
              (last_call' # NoCall /\ last_call'.val = mon'.previous_clipboard)
       /\ (/\ poll'.previous_clipboard # poll.previous_clipboard
           /\ poll'.previous_clipboard # PyNone) =>
              (last_call' # NoCall /\ last_call'.val = poll'.previous_clipboard)]_vars

\* C18 (amended): previous_clipboard is set to every value read that differs
\* from it, and to nothing else; that value is passed to the callback in the
\* same step unless it is an image withheld by the one-shot suppression,
\* which is remembered all the same; a value passed to the callback is always
\* the one remembered.
C18_DedupIsLastAccepted ==
    [][/\ (/\ mon'.previous_clipboard # mon.previous_clipboard
           /\ mon'.previous_clipboard # PyNone) =>
              /\ wpc = "wl_dispatch"
              /\ reported' = mon'.previous_clipboard
              /\ \/ last_call' = Delivered(KindOf(reported'))
                 \/ /\ reported'.ty = "bytes"
                    /\ block_image_once /\ ~block_image_once'
                    /\ last_call' = NoCall
       /\ (/\ poll'.previous_clipboard # poll.previous_clipboard
           /\ poll'.previous_clipboard # PyNone) =>
              /\ wpc = "poll_body"
              /\ reported' = poll'.previous_clipboard
              /\ \/ last_call' = Delivered(KindOf(reported'))
                 \/ /\ reported'.ty = "bytes"
                    /\ block_image_once /\ ~block_image_once'
                    /\ last_call' = NoCall
       /\ (wpc = "wl_dispatch" /\ ReadStep /\ ~PyEq(reported', mon.previous_clipboard)) =>
              mon'.previous_clipboard = reported'
       /\ (wpc = "poll_body" /\ ReadStep /\ ~PyEq(reported', poll.previous_clipboard)) =>
              poll'.previous_clipboard = reported'
       /\ (wpc = "wl_dispatch" /\ ReadStep /\ last_call' # NoCall) =>
              last_call'.val = mon'.previous_clipboard
       /\ (wpc = "poll_body" /\ ReadStep /\ last_call' # NoCall) =>
              last_call'.val = poll'.previous_clipboard]_vars

\* the Protocol Client remembers an image that the suppression withheld
C18_Witness ==
    /\ wpc = "wl_loop"
    /\ mon.previous_clipboard.ty = "bytes"
    /\ PyEq(reported, mon.previous_clipboard)
    /\ ~repeat
    /\ last_call = NoCall

\* C19 (as stated): once stop() has signalled the session and cleared the
\* running flag, the worker sets no running flag again, does not fall back
\* from the Protocol Client to another strategy, does not enter the toolkit
\* main loop and does not start the Polling Executor.
C19_NoStrategyAfterStopSignal ==
    [][cpc = "stop_join" =>
            /\ ~(~run_poll /\ run_poll')
            /\ ~(~mon.running /\ mon'.running)
            /\ ~(~is_gdk_running /\ is_gdk_running')
            /\ ~(wpc = "wl_failed" /\ wpc' = "gdk_check")
            /\ ~(gtk_loop # "running" /\ gtk_loop' = "running")
            /\ ~(wpc = "poll_start" /\ wpc' = "poll_check")]_vars

\* C20 (as stated): every value passed to the callback is non-empty: a
\* non-empty string, non-empty bytes, or a non-empty list of non-empty
\* strings.
C20_NoEmptyPayload ==
    last_call # NoCall =>
        /\ Truthy(last_call.val)
        /\ last_call.val.ty = "list" =>
              \A i \in 1..Len(last_call.val.v) : last_call.val.v[i] # ""

====
